---- MODULE Spec2Model ----
(***************************************************************************)
(* A model of src/phpunit/problem-matcher.ts: the teamcity escape codec    *)
(* (EscapeValue), the location-hint decomposition of Parser and the        *)
(* lifecycle correlator ProblemMatcher.                                    *)
(*                                                                         *)
(* A decoded record is a TLA+ record whose DOMAIN is the set of own        *)
(* properties of the JavaScript object.  Text that the code only copies or *)
(* concatenates is a TLA+ string; text that the code scans character by    *)
(* character (escape, unescape, parseLocationHint) is a sequence of        *)
(* one-character strings.                                                  *)
(***************************************************************************)
EXTENDS Integers, Sequences, FiniteSets, TLC

VARIABLES
    collect,    \* ProblemMatcher.collect: Map<string, TestResult>
    log,        \* every call of parse so far (ProblemMatcher.parse; in SpecDiscovery the
                \* discovery Parser.parse): its input and what it returned
    text,       \* the character sequence handed to a function of EscapeValue or Parser
    parts,      \* the file and segments the location hint in text was written from
    parsed,     \* what that function returned for text (NotRun before the call)
    parserNamespace, \* Parser.namespace of the test-discovery Parser (this.namespace)
    returned,   \* for every call of ProblemMatcher.parse so far, the object the call
                \* handed back out of the store (return this.collect.get(id)) with the
                \* fields it has now; Undefined for a call that handed back none
    shared      \* for the keys of collect whose object is one that a call handed
                \* back: the call

vars == <<collect, log, text, parts, parsed, parserNamespace, returned, shared>>

(***************************************************************************)
(* Bounds of the model.                                                    *)
(***************************************************************************)
MaxSteps == 4       \* calls of ProblemMatcher.parse in one behaviour of Spec
MaxFaults == 2      \* fault messages in one behaviour of SpecOrdered
MaxLen == 3         \* characters of a text handed to EscapeValue
MaxSegments == 2    \* segments after the file of a location hint

(***************************************************************************)
(* JavaScript values.                                                      *)
(***************************************************************************)
\* the value undefined, as the result of a call
Undefined == [undefined |-> TRUE]
\* a call that ended by raising a TypeError
Threw == [throws |-> "TypeError"]
\* the pure-function result before the function has been applied
NotRun == [notrun |-> TRUE]

\* a string value s where the program may hold undefined instead: the record
\* [string |-> s], so that it compares with Undefined
StringOf(s) == [string |-> s]

\* the object {}
EmptyObject == [f \in {} |-> TRUE]

\* 'f' in o
In(f, o) == f \in DOMAIN o

\* { ...a, ...b }
Spread(a, b) ==
    [f \in DOMAIN a \cup DOMAIN b |-> IF f \in DOMAIN b THEN b[f] ELSE a[f]]

\* o.f = v
Assign(o, f, v) == [g \in DOMAIN o \cup {f} |-> IF g = f THEN v ELSE o[g]]

\* map.set(k, v) and map.delete(k)
MapSet(map, k, v) == [j \in DOMAIN map \cup {k} |-> IF j = k THEN v ELSE map[j]]
MapDelete(map, k) == [j \in DOMAIN map \ {k} |-> map[j]]

TestResultEvent ==
    {"testSuiteStarted", "testSuiteFinished", "testStarted",
     "testFailed", "testIgnored", "testFinished"}

TestExtraResultEvent ==
    {"testVersion", "testRuntime", "testConfiguration", "testProcesses",
     "testCount", "timeAndMemory", "testResultSummary"}

(***************************************************************************)
(* Text scanned character by character.                                    *)
(***************************************************************************)
\* the positions of value at which the literal text sought begins
Occurrences(value, sought) ==
    {p \in 1 .. (Len(value) - Len(sought) + 1) :
        SubSeq(value, p, p + Len(sought) - 1) = sought}

\* the least element of a non-empty set of positions
First(positions) == CHOOSE p \in positions : \A q \in positions : p <= q

\* value.replace(new RegExp(from, 'g'), to) for a pattern that matches the
\* literal text from: every occurrence, found left to right, none overlapping
RECURSIVE ReplaceAll(_, _, _)
ReplaceAll(value, from, to) ==
    LET at == Occurrences(value, from)
    IN  IF at = {} THEN value
        ELSE SubSeq(value, 1, First(at) - 1) \o to
                 \o ReplaceAll(SubSeq(value, First(at) + Len(from), Len(value)), from, to)

\* value.split(separator)
RECURSIVE Split(_, _)
Split(value, separator) ==
    LET at == Occurrences(value, separator)
    IN  IF at = {} THEN <<value>>
        ELSE <<SubSeq(value, 1, First(at) - 1)>>
                 \o Split(SubSeq(value, First(at) + Len(separator), Len(value)), separator)

\* pieces.join(separator)
RECURSIVE Join(_, _)
Join(pieces, separator) ==
    IF pieces = <<>> THEN <<>>
    ELSE IF Len(pieces) = 1 THEN pieces[1]
    ELSE pieces[1] \o separator \o Join(Tail(pieces), separator)

(***************************************************************************)
(* EscapeValue, on a string value.                                         *)
(***************************************************************************)
values ==
    [escape |-> << <<"|", "|">>, <<"|", "'">>, <<"|", "n">>, <<"|", "r">>,
                   <<"|", "]">>, <<"|", "[">> >>,
     unescape |-> << <<"|">>, <<"'">>, <<"\n">>, <<"\r">>, <<"]">>, <<"[">> >>]

\* for (const x in from) value = value.replace(from[x], to[x])
RECURSIVE change(_, _, _)
change(value, from, to) ==
    IF from = <<>> THEN value
    ELSE change(ReplaceAll(value, Head(from), Head(to)), Tail(from), Tail(to))

escape(value) == change(value, values.unescape, values.escape)

unescape(value) == change(value, values.escape, values.unescape)

(***************************************************************************)
(* Parser.parseLocationHint.                                               *)
(***************************************************************************)
\* what \s matches, and the line terminators . does not match
WhiteSpace == {" ", "\t", "\n", "\r", "\f"}
LineTerminator == {"\n", "\r"}

\* /\swith\sdata\sset\s[#"].+$/ matches value from position p to its end
DataSetAt(value, p) ==
    /\ p + 16 <= Len(value)
    /\ value[p] \in WhiteSpace
    /\ SubSeq(value, p + 1, p + 4) = <<"w", "i", "t", "h">>
    /\ value[p + 5] \in WhiteSpace
    /\ SubSeq(value, p + 6, p + 9) = <<"d", "a", "t", "a">>
    /\ value[p + 10] \in WhiteSpace
    /\ SubSeq(value, p + 11, p + 13) = <<"s", "e", "t">>
    /\ value[p + 14] \in WhiteSpace
    /\ value[p + 15] \in {"#", "\""}
    /\ \A q \in (p + 16) .. Len(value) : value[q] \notin LineTerminator

\* id.replace(/\swith\sdata\sset\s[#"].+$/, ''): the leftmost match is cut off
StripDataSet(id) ==
    LET at == {p \in 1 .. Len(id) : DataSetAt(id, p)}
    IN  IF at = {} THEN id
        ELSE SubSeq(id, 1, First(at) - 1)

\* locationHint.replace(/^php_qn:\/\//, '')
Scheme == <<"p", "h", "p", "_", "q", "n", ":", "/", "/">>
StripScheme(locationHint) ==
    IF Len(locationHint) >= Len(Scheme) /\ SubSeq(locationHint, 1, Len(Scheme)) = Scheme
    THEN SubSeq(locationHint, Len(Scheme) + 1, Len(locationHint))
    ELSE locationHint

\* parseLocationHint without .replace(/::\\/g, '::')
parseLocationHint_KeepBackslash(locationHint) ==
    IF locationHint = <<>> THEN EmptyObject
    ELSE LET split == Split(StripScheme(locationHint), <<":", ":">>)
             id == Join(Tail(split), <<":", ":">>)
         IN  [id |-> id, file |-> Head(split), testId |-> StripDataSet(id)]

\* Parser.parseLocationHint, from argv.locationHint
parseLocationHint(locationHint) ==
    IF locationHint = <<>> THEN EmptyObject
    ELSE LET split == Split(ReplaceAll(StripScheme(locationHint),
                                       <<":", ":", "\\">>, <<":", ":">>),
                            <<":", ":">>)
             file == Head(split)
             id == Join(Tail(split), <<":", ":">>)
             testId == StripDataSet(id)
         IN  [id |-> id, file |-> file, testId |-> testId]

(***************************************************************************)
(* ProblemMatcher.  A handler is an operator from the store and the        *)
(* decoded record to the store after the call and the value returned.      *)
(***************************************************************************)
\* generateId without the flow id
generateId_NameOnly(testResult) == testResult.name

generateId(testResult) ==
    testResult.name \o "-" \o ToString(testResult.flowId)

isFault(testResult) ==
    testResult.event \in {"testFailed", "testIgnored"}

isTestResult(result) ==
    /\ result # Undefined
    /\ In("event", result)
    /\ In("name", result)
    /\ In("flowId", result)

\* handleStarted leaving a record that is already stored as it is
handleStarted_KeepPrior(c, testResult) ==
    LET id == generateId(testResult)
        stored == IF id \in DOMAIN c THEN c
                  ELSE MapSet(c, id, Spread(EmptyObject, testResult))
    IN  [collect |-> stored, result |-> Spread(EmptyObject, testResult)]

\* The object returned is the object stored: both have the fields of the copy.
handleStarted(c, testResult) ==
    LET id == generateId(testResult)
        stored == MapSet(c, id, Spread(EmptyObject, testResult))
    IN  [collect |-> stored, result |-> stored[id]]

\* prevData.message += '\n\n' + testResult.message, where a missing message
\* reads as undefined and is converted to the text "undefined"
AppendMessage(prevData, testResult) ==
    Assign(prevData, "message",
           (IF In("message", prevData) THEN prevData.message ELSE "undefined")
               \o "\n\n" \o testResult.message)

\* handleFault returning the record it buffers
handleFault_Emits(c, testResult) ==
    LET id == generateId(testResult)
        has == id \in DOMAIN c
        merged == Spread(IF has THEN c[id] ELSE EmptyObject, testResult)
    IN  IF ~has \/ c[id].kind = "testStarted"
        THEN [collect |-> MapSet(c, id, merged), result |-> merged]
        ELSE LET prevData == IF testResult.message # ""
                             THEN Assign(c[id], "message",
                                         (IF In("message", c[id]) THEN c[id].message
                                          ELSE "undefined") \o "\n\n" \o testResult.message)
                             ELSE c[id]
             IN  IF ~In("details", prevData)
                 THEN [collect |-> MapSet(c, id, prevData), result |-> Threw]
                 ELSE [collect |-> MapSet(c, id,
                                       Assign(prevData, "details",
                                              prevData.details \o testResult.details)),
                       result |-> Undefined]

\* handleFault with the separator '\n\n' left out of the concatenation
handleFault_NoSeparator(c, testResult) ==
    LET id == generateId(testResult)
        has == id \in DOMAIN c
    IN  IF ~has \/ c[id].kind = "testStarted"
        THEN [collect |-> MapSet(c, id, Spread(IF has THEN c[id] ELSE EmptyObject,
                                                testResult)),
              result |-> Undefined]
        ELSE LET prevData == IF testResult.message # ""
                             THEN Assign(c[id], "message",
                                         (IF In("message", c[id]) THEN c[id].message
                                          ELSE "undefined") \o testResult.message)
                             ELSE c[id]
             IN  IF ~In("details", prevData)
                 THEN [collect |-> MapSet(c, id, prevData), result |-> Threw]
                 ELSE [collect |-> MapSet(c, id,
                                       Assign(prevData, "details",
                                              prevData.details \o testResult.details)),
                       result |-> Undefined]

\* handleFault spreading every fault over the stored record, a stored fault included
handleFault_LastWins(c, testResult) ==
    LET id == generateId(testResult)
    IN  [collect |-> MapSet(c, id, Spread(IF id \in DOMAIN c THEN c[id] ELSE EmptyObject,
                                          testResult)),
         result |-> Undefined]

\* handleFault dropping a fault of a key that has no stored record
handleFault_NeedsStarted(c, testResult) ==
    LET id == generateId(testResult)
        has == id \in DOMAIN c
    IN  IF ~has THEN [collect |-> c, result |-> Undefined]
        ELSE IF c[id].kind = "testStarted"
        THEN [collect |-> MapSet(c, id, Spread(c[id], testResult)), result |-> Undefined]
        ELSE LET prevData == IF testResult.message # ""
                             THEN AppendMessage(c[id], testResult)
                             ELSE c[id]
             IN  IF ~In("details", prevData)
                 THEN [collect |-> MapSet(c, id, prevData), result |-> Threw]
                 ELSE [collect |-> MapSet(c, id,
                                       Assign(prevData, "details",
                                              prevData.details \o testResult.details)),
                       result |-> Undefined]

handleFault(c, testResult) ==
    LET id == generateId(testResult)
        has == id \in DOMAIN c
    IN  IF ~has \/ c[id].kind = "testStarted"
        THEN [collect |-> MapSet(c, id, Spread(IF has THEN c[id] ELSE EmptyObject,
                                                testResult)),
              result |-> Undefined]
        ELSE LET prevData == IF testResult.message # ""
                             THEN AppendMessage(c[id], testResult)
                             ELSE c[id]
             IN  IF ~In("details", prevData)
                 \* prevData.details is undefined: push raises after the stored
                 \* object's message has been changed in place
                 THEN [collect |-> MapSet(c, id, prevData), result |-> Threw]
                 ELSE [collect |-> MapSet(c, id,
                                       Assign(prevData, "details",
                                              prevData.details \o testResult.details)),
                       result |-> Undefined]

\* handleFinished taking the event of the incoming message whatever is stored
handleFinished_NotSticky(c, testResult) ==
    LET id == generateId(testResult)
    IN  IF id \notin DOMAIN c
        THEN [collect |-> c, result |-> Threw]
        ELSE [collect |-> MapDelete(c, id),
              result |-> Spread(Spread(c[id], testResult),
                                [event |-> testResult.event, kind |-> testResult.event])]

\* handleFinished merging the stored record over the incoming one
handleFinished_StoredWins(c, testResult) ==
    LET id == generateId(testResult)
    IN  IF id \notin DOMAIN c
        THEN [collect |-> c, result |-> Threw]
        ELSE LET prevData == c[id]
                 event == IF isFault(prevData) THEN prevData.event ELSE testResult.event
             IN  [collect |-> MapDelete(c, id),
                  result |-> Spread(Spread(testResult, prevData),
                                    [event |-> event, kind |-> event])]

\* handleFinished without this.collect.delete(id)
handleFinished_NoDelete(c, testResult) ==
    LET id == generateId(testResult)
    IN  IF id \notin DOMAIN c
        THEN [collect |-> c, result |-> Threw]
        ELSE LET prevData == c[id]
                 event == IF isFault(prevData) THEN prevData.event ELSE testResult.event
             IN  [collect |-> c,
                  result |-> Spread(Spread(prevData, testResult),
                                    [event |-> event, kind |-> event])]

\* handleFinished leaving kind as the incoming message has it
handleFinished_KindOfMessage(c, testResult) ==
    LET id == generateId(testResult)
    IN  IF id \notin DOMAIN c
        THEN [collect |-> c, result |-> Threw]
        ELSE LET prevData == c[id]
                 event == IF isFault(prevData) THEN prevData.event ELSE testResult.event
             IN  [collect |-> MapDelete(c, id),
                  result |-> Spread(Spread(prevData, testResult), [event |-> event])]

handleFinished(c, testResult) ==
    LET id == generateId(testResult)
    IN  IF id \notin DOMAIN c
        \* prevData is undefined: isFault(prevData) reads prevData.event and raises
        THEN [collect |-> c, result |-> Threw]
        ELSE LET prevData == c[id]
                 event == IF isFault(prevData) THEN prevData.event ELSE testResult.event
                 kind == event
             IN  [collect |-> MapDelete(c, id),
                  result |-> Spread(Spread(prevData, testResult),
                                    [event |-> event, kind |-> kind])]

\* this.lookup[event]?.call(this, result).  lookup is an object literal, so
\* this.lookup[event] also finds the members it inherits from Object.prototype:
\* for an event of such a name the member is called with the matcher as this
\* and the record as its first argument.
lookup(c, testResult) ==
    CASE testResult.event \in {"testSuiteStarted", "testStarted"} ->
            handleStarted(c, testResult)
      [] testResult.event \in {"testSuiteFinished", "testFinished"} ->
            handleFinished(c, testResult)
      [] testResult.event \in {"testFailed", "testIgnored"} ->
            handleFault(c, testResult)
      \* Object.prototype.toString.call(this): the text [object Object]
      [] testResult.event \in {"toString", "toLocaleString"} ->
            [collect |-> c, result |-> StringOf("[object Object]")]
      \* Object(result): the record itself
      [] testResult.event = "constructor" -> [collect |-> c, result |-> testResult]
      \* this.valueOf(): the matcher
      [] testResult.event = "valueOf" ->
            [collect |-> c, result |-> [object |-> "ProblemMatcher"]]
      \* the matcher has no property of the name String(result)
      [] testResult.event \in {"hasOwnProperty", "isPrototypeOf", "propertyIsEnumerable"} ->
            [collect |-> c, result |-> [boolean |-> FALSE]]
      [] testResult.event \in {"__lookupGetter__", "__lookupSetter__"} ->
            [collect |-> c, result |-> Undefined]
      \* lookup.__proto__ is an object without a member call; the accessor
      \* definers reject an undefined function
      [] testResult.event \in {"__proto__", "__defineGetter__", "__defineSetter__"} ->
            [collect |-> c, result |-> Threw]
      [] OTHER -> [collect |-> c, result |-> Undefined]

\* parse dropping whatever is no lifecycle record
parse_DropOthers(c, result) ==
    IF isTestResult(result) THEN lookup(c, result) ELSE [collect |-> c, result |-> Undefined]

\* ProblemMatcher.parse, from the record this.parser.parse(input) returned
parse(c, result) ==
    IF isTestResult(result) THEN lookup(c, result) ELSE [collect |-> c, result |-> result]

(***************************************************************************)
(* Decoded records, shaped as the types TestStarted, TestFailed, ...       *)
(***************************************************************************)
Name == "t"
Flows == {1, 2}

Started(event, name, flowId) ==
    [event |-> event, kind |-> event, name |-> name, flowId |-> flowId,
     locationHint |-> "php_qn://F" \o ToString(flowId) \o ".php::T" \o ToString(flowId)
                          \o "::" \o name,
     file |-> "F" \o ToString(flowId) \o ".php",
     id |-> "T" \o ToString(flowId) \o "::" \o name,
     testId |-> "T" \o ToString(flowId) \o "::" \o name]

Fault(event, name, flowId, message, details) ==
    [event |-> event, kind |-> event, name |-> name, flowId |-> flowId,
     message |-> message, details |-> details, duration |-> 0]

Finished(event, name, flowId) ==
    IF event = "testFinished"
    THEN [event |-> event, kind |-> event, name |-> name, flowId |-> flowId,
          duration |-> 10 + flowId]
    ELSE [event |-> event, kind |-> event, name |-> name, flowId |-> flowId]

Detail(file, line) == [file |-> file, line |-> line]

\* the keys (name, flowId) of the messages
Keys == {[name |-> Name, flowId |-> f] : f \in Flows}

StartedRecords == {Started(e, Name, f) : e \in {"testStarted", "testSuiteStarted"}, f \in Flows}

\* two faults that carry type, actual and expected, each with values of its
\* own, and one that carries none of them and has an empty message
FaultRecords ==
    UNION {{Spread(Fault("testFailed", Name, f, "A",
                         <<Detail("A.php", 1), Detail("A.php", 2)>>),
                   [type |-> "comparisonFailure", actual |-> "1", expected |-> "2"]),
            Spread(Fault("testIgnored", Name, f, "B", <<Detail("B.php", 3)>>),
                   [type |-> "skipped", actual |-> "3", expected |-> "4"]),
            Fault("testIgnored", Name, f, "", <<>>)} : f \in Flows}

FinishedRecords == {Finished(e, Name, f) : e \in {"testFinished", "testSuiteFinished"}, f \in Flows}

LifecycleRecords == StartedRecords \cup FaultRecords \cup FinishedRecords

\* what Parser.parse returns for a line that is no lifecycle message
OtherResults ==
    {[kind |-> "testVersion", phpunit |-> "9.5.26", text |-> "PHPUnit 9.5.26"],
     Undefined}

Results == LifecycleRecords \cup OtherResults

(***************************************************************************)
(* Spec: any sequence of at most MaxSteps calls of ProblemMatcher.parse.    *)
(***************************************************************************)
Init ==
    /\ collect = EmptyObject
    /\ log = <<>>
    /\ text = <<>>
    /\ parts = <<>>
    /\ parsed = NotRun
    /\ parserNamespace = Undefined
    /\ returned = <<>>
    /\ shared = EmptyObject

\* One call of ProblemMatcher.parse.  The store holds objects, and a record
\* that handleStarted returns is the object it has just stored, so what a
\* later call does to that object in place is done to the returned record.
Call(result) ==
    LET r == parse(collect, result)
        id == generateId(result)
        \* handleStarted: a new object is stored and handed back
        started == isTestResult(result) /\ result.event \in {"testSuiteStarted", "testStarted"}
        \* handleFault past the first return: prevData.message += ..., then
        \* prevData.details.push(...), on the object found in the store
        inPlace == /\ isTestResult(result)
                   /\ isFault(result)
                   /\ id \in DOMAIN collect
                   /\ collect[id].kind # "testStarted"
        \* handleFault at the first return and handleFinished: the entry gets
        \* an object of its own or is deleted
        replaced == /\ isTestResult(result)
                    /\ result.event \in TestResultEvent
                    /\ ~started /\ ~inPlace
    IN  /\ collect' = r.collect
        /\ log' = Append(log, [input |-> result, output |-> r.result])
        /\ returned' =
               Append([i \in DOMAIN returned |->
                           IF inPlace /\ id \in DOMAIN shared /\ shared[id] = i
                           THEN r.collect[id]
                           ELSE returned[i]],
                      IF started THEN r.result ELSE Undefined)
        /\ shared' = IF started THEN MapSet(shared, id, Len(log) + 1)
                      ELSE IF replaced THEN MapDelete(shared, id)
                      ELSE shared
        /\ UNCHANGED <<text, parts, parsed, parserNamespace>>

Parse ==
    /\ Len(log) < MaxSteps
    /\ \E result \in Results : Call(result)

(***************************************************************************)
(* SpecOrdered: the messages of every key arrive as the runner sends them, *)
(* a Started (SuiteStarted), then faults, then one Finished                *)
(* (SuiteFinished); the keys interleave in any order.  A behaviour holds   *)
(* at most MaxFaults fault messages.                                       *)
(***************************************************************************)
\* the key (name, flowId) of two lifecycle messages is the same
SameKey(a, b) == a.name = b.name /\ a.flowId = b.flowId

\* the steps of the log that hold a lifecycle message of key k
StepsOf(k) == {i \in 1 .. Len(log) : isTestResult(log[i].input) /\ SameKey(log[i].input, k)}

\* the calls of the log that were handed a message of key k, in order
CallsOf(k) == SelectSeq(log, LAMBDA call : isTestResult(call.input) /\ SameKey(call.input, k))

\* the messages the runner may send next for key k
InOrder(k) ==
    LET mine == CallsOf(k)
        faults == SelectSeq(log, LAMBDA call : isTestResult(call.input)
                                    /\ call.input.event \in {"testFailed", "testIgnored"})
        mayFail == IF Len(faults) < MaxFaults
                   THEN {r \in FaultRecords : SameKey(r, k)}
                   ELSE {}
    IN  IF mine = <<>>
        THEN {r \in StartedRecords : SameKey(r, k)}
        ELSE IF mine[Len(mine)].input.event \in {"testFinished", "testSuiteFinished"}
        THEN {}
        \* a test is closed by testFinished, a suite by testSuiteFinished
        ELSE mayFail \cup {Finished(IF mine[1].input.event = "testStarted"
                                     THEN "testFinished" ELSE "testSuiteFinished",
                                     k.name, k.flowId)}

OrderedParse ==
    \E k \in Keys :
        \E result \in InOrder(k) : Call(result)

NextOrdered == OrderedParse

SpecOrdered == Init /\ [][NextOrdered]_vars

Next == Parse

Spec == Init /\ [][Next]_vars

(***************************************************************************)
(* SpecEscape: one text of at most MaxLen characters, drawn from the six   *)
(* reserved characters and three ordinary ones, is escaped and unescaped.  *)
(***************************************************************************)
Chars == {"|", "'", "\n", "\r", "]", "[", "n", "r", "a"}

Texts == UNION {[1 .. n -> Chars] : n \in 0 .. MaxLen}

InitEscape ==
    /\ collect = EmptyObject
    /\ log = <<>>
    /\ text \in Texts
    /\ parts = <<>>
    /\ parsed = NotRun
    /\ parserNamespace = Undefined
    /\ returned = <<>>
    /\ shared = EmptyObject

RoundTrip ==
    /\ parsed = NotRun
    /\ parsed' = [escaped |-> escape(text), unescaped |-> unescape(escape(text))]
    /\ UNCHANGED <<collect, log, text, parts, parserNamespace, returned, shared>>

NextEscape == RoundTrip

SpecEscape == InitEscape /\ [][NextEscape]_vars

(***************************************************************************)
(* SpecHint: one location hint php_qn://<file>::<seg1>::...::<segN>, each  *)
(* segment with or without a backslash before it, is decomposed.           *)
(***************************************************************************)
\* the texts the hints are written from
SrcFileTestPhp ==
    <<"s", "r", "c", "/", "F", "i", "l", "e", "T", "e", "s", "t", ".", "p",
      "h", "p">>

WindowsFileTestPhp ==
    <<"C", ":", "\\", "F", "i", "l", "e", "T", "e", "s", "t", ".", "p", "h",
      "p">>

NsFileTest ==
    <<"N", "s", "\\", "F", "i", "l", "e", "T", "e", "s", "t">>

FileTest ==
    <<"F", "i", "l", "e", "T", "e", "s", "t">>

TestFoo ==
    <<"t", "e", "s", "t", "_", "f", "o", "o">>

WithDataSet ==
    <<" ", "w", "i", "t", "h", " ", "d", "a", "t", "a", " ", "s", "e", "t",
      " ">>

TestFooDataSet3 ==
    <<"t", "e", "s", "t", "_", "f", "o", "o", " ", "w", "i", "t", "h", " ",
      "d", "a", "t", "a", " ", "s", "e", "t", " ", "#", "3">>

HintFiles == {SrcFileTestPhp, WindowsFileTestPhp}

HintSegments == {NsFileTest, FileTest, TestFoo, TestFooDataSet3}

Segments == [backslash : BOOLEAN, segment : HintSegments]

HintParts ==
    [file : HintFiles, segments : UNION {[1 .. n -> Segments] : n \in 1 .. MaxSegments}]

\* ::<seg1>::...::<segN>, a backslash after :: where the part asks for one
RECURSIVE WriteSegments(_)
WriteSegments(segments) ==
    IF segments = <<>> THEN <<>>
    ELSE <<":", ":">> \o (IF Head(segments).backslash THEN <<"\\">> ELSE <<>>)
             \o Head(segments).segment \o WriteSegments(Tail(segments))

WriteHint(p) == Scheme \o p.file \o WriteSegments(p.segments)

InitHint ==
    /\ collect = EmptyObject
    /\ log = <<>>
    /\ parts \in HintParts
    /\ text = WriteHint(parts)
    /\ parsed = NotRun
    /\ parserNamespace = Undefined
    /\ returned = <<>>
    /\ shared = EmptyObject

ParseHint ==
    /\ parsed = NotRun
    /\ parsed' = parseLocationHint(text)
    /\ UNCHANGED <<collect, log, text, parts, parserNamespace, returned, shared>>

NextHint == ParseHint

SpecHint == InitHint /\ [][NextHint]_vars

(***************************************************************************)
(* Reading the log.                                                        *)
(***************************************************************************)
Steps == 1 .. Len(log)

StartedEvents == {"testStarted", "testSuiteStarted"}
FaultEvents == {"testFailed", "testIgnored"}
FinishedEvents == {"testFinished", "testSuiteFinished"}

\* The formulas below speak of the call just made, step Len(log): every prefix
\* of a log is the log of a reachable state, so every step is covered.
LastStep == IF log = <<>> THEN {} ELSE {Len(log)}

\* the call at step i was handed a lifecycle message with one of these events
IsEvent(i, events) ==
    /\ isTestResult(log[i].input)
    /\ log[i].input.event \in events

\* step i is a lifecycle message with one of these events for the key of step j
IsEventFor(i, events, j) ==
    /\ IsEvent(i, events)
    /\ SameKey(log[i].input, log[j].input)

\* the event of a returned value, "none" when the call returned no record
EventOf(r) == IF In("event", r) THEN r.event ELSE "none"

\* a returned value that is a record (neither undefined nor a raised error)
IsRecord(r) == In("kind", r)

\* the last step before j that opened or closed the key of step j (0: none)
Boundary(j) ==
    LET S == {i \in 1 .. (j - 1) : IsEventFor(i, StartedEvents \cup FinishedEvents, j)}
    IN  IF S = {} THEN 0 ELSE CHOOSE i \in S : \A m \in S : m <= i

\* the last step before j that closed the key of step j (0: none)
LastClose(j) ==
    LET S == {i \in 1 .. (j - 1) : IsEventFor(i, FinishedEvents, j)}
    IN  IF S = {} THEN 0 ELSE CHOOSE i \in S : \A m \in S : m <= i

\* the steps after step s and before step j that are fault messages for the key of j
FaultsBetween(s, j) == {i \in (s + 1) .. (j - 1) : IsEventFor(i, FaultEvents, j)}

\* the elements of a set of steps, in increasing order
RECURSIVE Ascending(_)
Ascending(S) ==
    IF S = {} THEN <<>>
    ELSE LET lo == CHOOSE i \in S : \A m \in S : i <= m
         IN  <<lo>> \o Ascending(S \ {lo})

MergeTriple(s, i, j) ==
    /\ s < i /\ i < j
    /\ IsEvent(s, {"testStarted"})
    /\ IsEventFor(i, FaultEvents, s)
    /\ IsEventFor(j, {"testFinished"}, s)
    /\ \A m \in (s + 1) .. (j - 1) : m # i => ~IsEventFor(m, TestResultEvent, s)

\* C2: testStarted, one fault (message m, details d), testFinished (duration t)
\* of one key return one terminal record, at testFinished: nothing is returned
\* at the fault, and the record has the fault's event as event and kind, m, d,
\* the Started record's id, file and locationHint, and every field of the
\* Finished message other than event and kind with the Finished message's
\* value (so duration is t); it has no field besides those of the three.
C2_CorrelationMerge ==
    \A j \in LastStep : \A s, i \in Steps :
        MergeTriple(s, i, j) =>
            LET started == log[s].input
                fault == log[i].input
                finished == log[j].input
                out == log[j].output
            IN  /\ log[i].output = Undefined
                /\ IsRecord(out)
                /\ DOMAIN out = DOMAIN started \cup DOMAIN fault \cup DOMAIN finished
                /\ out.event = fault.event
                /\ out.kind = fault.event
                /\ out.message = fault.message
                /\ out.details = fault.details
                /\ out.id = started.id
                /\ out.file = started.file
                /\ out.locationHint = started.locationHint
                /\ out.duration = finished.duration
                /\ \A f \in DOMAIN finished \ {"event", "kind"} : out[f] = finished[f]

\* such a triple, the fault carrying another duration than the Finished message
\* and a message of the other key arriving in between
C2_Witness ==
    \E s, i, j \in Steps :
        /\ MergeTriple(s, i, j)
        /\ log[i].input.duration # log[j].input.duration
        /\ log[i].input.message = "A"
        /\ j = s + 3
        /\ log[j].output.duration = log[j].input.duration

(***************************************************************************)
(* C3: several faults of one key.                                          *)
(***************************************************************************)
\* the messages of the fault steps F (in order), joined by a blank line
RECURSIVE JoinMessages(_)
JoinMessages(F) ==
    IF Len(F) = 1 THEN log[F[1]].input.message
    ELSE JoinMessages(SubSeq(F, 1, Len(F) - 1)) \o "\n\n" \o log[F[Len(F)]].input.message

\* the same, a later message that is empty adding nothing
RECURSIVE JoinNonEmptyMessages(_)
JoinNonEmptyMessages(F) ==
    IF Len(F) = 1 THEN log[F[1]].input.message
    ELSE LET m == log[F[Len(F)]].input.message
         IN  JoinNonEmptyMessages(SubSeq(F, 1, Len(F) - 1))
                 \o (IF m = "" THEN "" ELSE "\n\n" \o m)

\* the detail lists of the fault steps F, one after the other
RECURSIVE ConcatDetails(_)
ConcatDetails(F) ==
    IF F = <<>> THEN <<>>
    ELSE ConcatDetails(SubSeq(F, 1, Len(F) - 1)) \o log[F[Len(F)]].input.details

\* the fault steps of the key of step j since it was opened or closed
FaultsOf(j) == Ascending(FaultsBetween(Boundary(j), j))

EntriesOf(c, k) == {id \in DOMAIN c : SameKey(c[id], k)}

\* C5: the store holds at most one record per key; an entry of a key is there
\* no more after a step only if the step processed a Finished/SuiteFinished
\* message of that key, and after such a step the key has no entry.
C5_StoreLifetime ==
    [][LET last == log'[Len(log')]
       IN  \A k \in Keys :
             /\ Cardinality(EntriesOf(collect', k)) <= 1
             /\ (EntriesOf(collect, k) # {} /\ EntriesOf(collect', k) = {})
                    => (IsRecord(last.input) /\ isTestResult(last.input)
                        /\ last.input.event \in FinishedEvents /\ SameKey(last.input, k))
             /\ (isTestResult(last.input) /\ last.input.event \in FinishedEvents
                 /\ SameKey(last.input, k))
                    => EntriesOf(collect', k) = {}]_vars

\* a Finished message has just removed the entry of its key and left the
\* entry of the other key in the store
C5_Witness ==
    /\ log # <<>>
    /\ IsEvent(Len(log), FinishedEvents)
    /\ IsRecord(log[Len(log)].output)
    /\ EntriesOf(collect, log[Len(log)].input) = {}
    /\ DOMAIN collect # {}

(***************************************************************************)
(* C6: no call raises.                                                     *)
(***************************************************************************)
\* C6: every call of ProblemMatcher.parse returns (a record or nothing); none
\* raises an error.
C6_NeverRaises == \A i \in LastStep : log[i].output # Threw

(***************************************************************************)
(* C7: what is no lifecycle record bypasses the correlator.                *)
(***************************************************************************)
\* C7: when Parser.parse yields an informational record or nothing, the call
\* returns exactly that value and leaves the store as it was.
C7_Bypass ==
    [][LET last == log'[Len(log')]
       IN  ~isTestResult(last.input) =>
               /\ last.output = last.input
               /\ collect' = collect]_vars

\* an informational record returned as it came while a key is open
C7_Witness ==
    /\ log # <<>>
    /\ log[Len(log)].input \in OtherResults
    /\ log[Len(log)].input # Undefined
    /\ log[Len(log)].output = log[Len(log)].input
    /\ DOMAIN collect # {}

(***************************************************************************)
(* C4: flows do not disturb one another.                                   *)
(***************************************************************************)
\* the calls parse(inputs[1]), parse(inputs[2]), ... made one after the other
\* from store c: the store at the end and the values returned
RECURSIVE Run(_, _)
Run(c, inputs) ==
    IF inputs = <<>> THEN [collect |-> c, outputs |-> <<>>]
    ELSE LET r == parse(c, Head(inputs))
             rest == Run(r.collect, Tail(inputs))
         IN  [collect |-> rest.collect, outputs |-> <<r.result>> \o rest.outputs]

\* the messages of key k in the log, and what the calls returned for them
InputsOf(k) == LET calls == CallsOf(k) IN [n \in DOMAIN calls |-> calls[n].input]
OutputsOf(k) == LET calls == CallsOf(k) IN [n \in DOMAIN calls |-> calls[n].output]

\* the messages of key k processed alone by a fresh ProblemMatcher
Alone(k) == Run(EmptyObject, InputsOf(k))

\* C4: for the keys (t, 1) and (t, 2) and every interleaving of their
\* messages, each call returns for a key what it returns when the messages of
\* that key are processed alone, and the record stored for the key is the one
\* stored then.
C4_FlowIndependence ==
    \A k \in Keys :
        /\ OutputsOf(k) = Alone(k).outputs
        /\ [id \in EntriesOf(collect, k) |-> collect[id]] = Alone(k).collect

\* both keys are closed, each after a fault, and their messages alternated
C4_Witness ==
    /\ \A k \in Keys :
          /\ \E i \in StepsOf(k) : log[i].input.event \in FaultEvents
          /\ \E i \in StepsOf(k) : /\ log[i].input.event \in FinishedEvents
                                   /\ EventOf(log[i].output) \in FaultEvents
    /\ \E i \in 1 .. (Len(log) - 2) :
          /\ SameKey(log[i].input, log[i + 2].input)
          /\ ~SameKey(log[i].input, log[i + 1].input)

(***************************************************************************)
(* C9: one record at Started, one at Finished, none in between.            *)
(***************************************************************************)
\* key k has received its Finished or SuiteFinished
Closed(k) == \E i \in StepsOf(k) : log[i].input.event \in FinishedEvents

\* C9: when the messages of every key arrive in order, each Started call
\* returns one record (the Started record), each fault call returns no record,
\* each Finished call returns one record, so a closed key has had exactly two
\* records returned, and the store is empty once every key is closed.
C9_ExactlyOnce ==
    /\ \A i \in Steps :
          /\ IsEvent(i, StartedEvents) => log[i].output = log[i].input
          /\ IsEvent(i, FaultEvents) => ~IsRecord(log[i].output)
          /\ IsEvent(i, FinishedEvents) =>
                 IsRecord(log[i].output) /\ SameKey(log[i].output, log[i].input)
    /\ \A k \in Keys :
          Closed(k) => Cardinality({i \in StepsOf(k) : IsRecord(log[i].output)}) = 2
    /\ (\A k \in Keys : Closed(k)) => DOMAIN collect = {}

\* both keys closed after a fault each, the second key opened before the first
\* was closed
C9_Witness ==
    /\ \A k \in Keys : Closed(k) /\ Cardinality(StepsOf(k)) = 3
    /\ DOMAIN collect = {}
    /\ ~SameKey(log[1].input, log[2].input)

(***************************************************************************)
(* C8: escape and unescape.                                                *)
(***************************************************************************)
\* C8: for every text s over the six reserved characters and ordinary ones
\* such as n and r, unescape(escape(s)) = s.
C8_RoundTrip == parsed # NotRun => parsed.unescaped = text

(***************************************************************************)
(* C10: decomposition of a location hint.                                  *)
(***************************************************************************)
\* the segments as written, without the backslashes
RECURSIVE SegmentsOf(_)
SegmentsOf(segments) ==
    IF segments = <<>> THEN <<>>
    ELSE <<Head(segments).segment>> \o SegmentsOf(Tail(segments))

\* the text has a data-set marker: " with data set " somewhere in it
HasDataSet(value) ==
    \E p \in 1 .. Len(value) :
        p + 14 <= Len(value) /\ SubSeq(value, p, p + 14) = WithDataSet

\* C10: for php_qn://<file>::<seg1>::...::<segN>, a backslash directly after
\* a :: being dropped, file is <file>, id is the segments joined by ::, and
\* testId is id when id carries no data-set suffix.
C10_LocationHint ==
    parsed # NotRun =>
        /\ parsed.file = parts.file
        /\ parsed.id = Join(SegmentsOf(parts.segments), <<":", ":">>)
        /\ ~HasDataSet(parsed.id) => parsed.testId = parsed.id

\* php_qn://src/FileTest.php::\Ns\FileTest::test_foo has been decomposed
C10_Witness ==
    /\ parsed # NotRun
    /\ text = Scheme \o SrcFileTestPhp \o <<":", ":", "\\">> \o NsFileTest
                  \o <<":", ":">> \o TestFoo
    /\ parsed.file = SrcFileTestPhp
    /\ parsed.id = NsFileTest \o <<":", ":">> \o TestFoo
    /\ parsed.testId = parsed.id

(***************************************************************************)
(* SpecDataSet: one location hint whose id is a base id followed by a      *)
(* data-set suffix (numbered, named, none, or a text that only looks like  *)
(* one) is decomposed.  A name has at most MaxName characters.             *)
(***************************************************************************)
MaxName == 2        \* characters of the name or the number of a data set

\*  with data set #N,  with data set "name", no suffix, and texts that stop
\* short of a suffix: no # or " after the marker, nothing after the #
\* PHP takes any string as the key of a data set, so a blank and a line feed
\* are among the characters of a name.
Suffixes ==
    {[kind |-> "number", value |-> WithDataSet \o <<"#">> \o n] :
        n \in UNION {[1 .. k -> {"0", "3"}] : k \in 1 .. MaxName}}
        \cup {[kind |-> "name", value |-> WithDataSet \o <<"\"">> \o n \o <<"\"">>] :
                  n \in UNION {[1 .. k -> {"a", "1", " ", "\n"}] : k \in 0 .. MaxName}}
        \cup {[kind |-> "none", value |-> v] :
                  v \in {<<>>, WithDataSet, WithDataSet \o <<"3">>, WithDataSet \o <<"#">>}}

DataSetParts ==
    [file : HintFiles,
     base : {FileTest \o <<":", ":">> \o TestFoo, NsFileTest \o <<":", ":">> \o TestFoo},
     suffix : Suffixes]

InitDataSet ==
    /\ collect = EmptyObject
    /\ log = <<>>
    /\ parts \in DataSetParts
    /\ text = Scheme \o parts.file \o <<":", ":">> \o parts.base \o parts.suffix.value
    /\ parsed = NotRun
    /\ parserNamespace = Undefined
    /\ returned = <<>>
    /\ shared = EmptyObject

ParseDataSet ==
    /\ parsed = NotRun
    /\ parsed' = parseLocationHint(text)
    /\ UNCHANGED <<collect, log, text, parts, parserNamespace, returned, shared>>

NextDataSet == ParseDataSet

SpecDataSet == InitDataSet /\ [][NextDataSet]_vars

(***************************************************************************)
(* C11: the data-set suffix.                                               *)
(***************************************************************************)
\* C11: an id ending in " with data set #N" or " with data set "name"" comes
\* back as id unchanged and as testId without that suffix; an id without such
\* a suffix comes back with testId equal to id.
C11_DataSetSuffix ==
    parsed # NotRun =>
        /\ parsed.id = parts.base \o parts.suffix.value
        /\ parts.suffix.kind \in {"number", "name"} => parsed.testId = parts.base
        /\ parts.suffix.kind = "none" => parsed.testId = parsed.id

(***************************************************************************)
(* Regular expressions of TestResultSummaryParser, matched on a sequence   *)
(* of characters.  A position 0 stands for "no match".                     *)
(***************************************************************************)
LowerCase ==
    <<"a", "b", "c", "d", "e", "f", "g", "h", "i", "j", "k", "l", "m",
      "n", "o", "p", "q", "r", "s", "t", "u", "v", "w", "x", "y", "z">>

UpperCase ==
    <<"A", "B", "C", "D", "E", "F", "G", "H", "I", "J", "K", "L", "M",
      "N", "O", "P", "Q", "R", "S", "T", "U", "V", "W", "X", "Y", "Z">>

DecimalDigits == <<"0", "1", "2", "3", "4", "5", "6", "7", "8", "9">>

\* what \d and \w match
Digits == {DecimalDigits[i] : i \in DOMAIN DecimalDigits}
WordChars ==
    {LowerCase[i] : i \in DOMAIN LowerCase} \cup {UpperCase[i] : i \in DOMAIN UpperCase}
        \cup Digits \cup {"_"}

\* one character of name.toLowerCase(), and of a match under the flag i
LowerChar(c) ==
    IF \E i \in DOMAIN UpperCase : UpperCase[i] = c
    THEN LowerCase[CHOOSE i \in DOMAIN UpperCase : UpperCase[i] = c]
    ELSE c

toLowerCase(name) == [i \in DOMAIN name |-> LowerChar(name[i])]

\* the string of a sequence of characters, as the key of an object
RECURSIVE Str(_)
Str(chars) == IF chars = <<>> THEN "" ELSE Head(chars) \o Str(Tail(chars))

\* parseInt(count, 10) of a run of decimal digits
RECURSIVE parseInt(_)
parseInt(count) ==
    IF count = <<>> THEN 0
    ELSE 10 * parseInt(SubSeq(count, 1, Len(count) - 1))
             + (CHOOSE i \in DOMAIN DecimalDigits : DecimalDigits[i] = count[Len(count)]) - 1

\* the length of the longest run of characters of set that begins at p: what
\* \s+, \d+ and \w+ consume when the character after the run is none of set
RunOf(value, p, set) ==
    LET stop == {q \in p .. Len(value) : value[q] \notin set}
    IN  IF stop = {} THEN Len(value) - p + 1 ELSE First(stop) - p

\* the literal text, whatever the case of its letters, at p: the position after it
Lit(value, p, literal) ==
    IF /\ p # 0
       /\ p + Len(literal) - 1 <= Len(value)
       /\ \A i \in DOMAIN literal : LowerChar(value[p + i - 1]) = LowerChar(literal[i])
    THEN p + Len(literal)
    ELSE 0

\* (literal)? at p
Opt(value, p, literal) == IF Lit(value, p, literal) # 0 THEN Lit(value, p, literal) ELSE p

\* one character of set at p
OneOf(value, p, set) ==
    IF p # 0 /\ p <= Len(value) /\ value[p] \in set THEN p + 1 ELSE 0

\* a longest run of one or more characters of set at p
Some(value, p, set) ==
    IF p # 0 /\ RunOf(value, p, set) >= 1 THEN p + RunOf(value, p, set) ELSE 0

\* end = '\\s(\\d+)[\\.\\s,]\\s?'
SummaryEnd(value, p) ==
    LET number == Some(value, OneOf(value, p, WhiteSpace), Digits)
        closed == OneOf(value, number, WhiteSpace \cup {".", ","})
    IN  IF closed = 0 THEN 0
        ELSE IF OneOf(value, closed, WhiteSpace) # 0 THEN closed + 1
        ELSE closed

\* ^OK\s+\(\d+\stest(s)?
SummaryTerse(value) ==
    LET ok == Lit(value, 1, <<"O", "K">>)
        open == Lit(value, Some(value, ok, WhiteSpace), <<"(">>)
        count == Some(value, open, Digits)
        test == Lit(value, OneOf(value, count, WhiteSpace), <<"t", "e", "s", "t">>)
    IN  IF test = 0 THEN 0 ELSE Opt(value, test, <<"s">>)

\* ^Test(s)?:<end>Assertions:<end>; the fields ((Error(s)?|...|Risky):<end>)*
\* that may follow match any text, also none
SummaryVerbose(value) ==
    LET tests == Lit(value, Opt(value, Lit(value, 1, <<"T", "e", "s", "t">>), <<"s">>), <<":">>)
        assertions == Lit(value, SummaryEnd(value, tests),
                          <<"A", "s", "s", "e", "r", "t", "i", "o", "n", "s", ":">>)
    IN  SummaryEnd(value, assertions)

(***************************************************************************)
(* TestResultSummaryParser.                                                *)
(***************************************************************************)
\* is without the alternative ^OK\s+\(\d+\stest(s)?
TestResultSummaryParser_is_VerboseOnly(value) == SummaryVerbose(value) # 0

\* !!text.match(this.pattern): either alternative matches at the start
TestResultSummaryParser_is(value) ==
    SummaryTerse(value) # 0 \/ SummaryVerbose(value) # 0

normalize(name) ==
    LET lower == toLowerCase(name)
    IN  IF lower \in {<<"s", "k", "i", "p", "p", "e", "d">>,
                      <<"i", "n", "c", "o", "m", "p", "l", "e", "t", "e">>,
                      <<"r", "i", "s", "k", "y">>}
        THEN lower
        ELSE lower \o (IF lower[Len(lower)] = "s" THEN <<>> ELSE <<"s">>)

\* (?<name>\w+):\s(?<count>\d+) at p
SummaryNameCount(value, p) ==
    LET colon == Lit(value, Some(value, p, WordChars), <<":">>)
        number == OneOf(value, colon, WhiteSpace)
        end == Some(value, number, Digits)
    IN  IF end = 0 THEN [end |-> 0]
        ELSE [end |-> end, name |-> SubSeq(value, p, colon - 2),
              count |-> SubSeq(value, number, end - 1)]

\* (?<count2>\d+)\s(?<name2>\w+) at p
SummaryCountName(value, p) ==
    LET space == Some(value, p, Digits)
        word == OneOf(value, space, WhiteSpace)
        end == Some(value, word, WordChars)
    IN  IF end = 0 THEN [end |-> 0]
        ELSE [end |-> end, name |-> SubSeq(value, word, end - 1),
              count |-> SubSeq(value, p, space - 1)]

\* the pattern of parse at p: the first alternative that matches, then [.s,]?
SummaryField(value, p) ==
    LET first == SummaryNameCount(value, p)
        match == IF first.end # 0 THEN first ELSE SummaryCountName(value, p)
    IN  IF match.end = 0 THEN match
        ELSE [match EXCEPT !.end = IF OneOf(value, match.end, {".", "s", "S", ","}) # 0
                                   THEN match.end + 1 ELSE match.end]

\* [...text.matchAll(pattern)].reduce(...): the matches from p on, left to
\* right, each assigned to result under its normalized name
RECURSIVE SummaryReduce(_, _, _)
SummaryReduce(value, p, result) ==
    LET at == {q \in p .. Len(value) : SummaryField(value, q).end # 0}
    IN  IF at = {} THEN result
        ELSE LET match == SummaryField(value, First(at))
             IN  SummaryReduce(value, match.end,
                               Assign(result, Str(normalize(match.name)),
                                      parseInt(match.count)))

TestResultSummaryParser_parse(value) ==
    SummaryReduce(value, 1, [kind |-> "testResultSummary", text |-> value])

(***************************************************************************)
(* SpecSummary: one summary line, terse or verbose, is offered to          *)
(* TestResultSummaryParser.  A verbose line has at most MaxFields fields,  *)
(* all of different names, in any order.                                   *)
(***************************************************************************)
MaxFields == 3      \* fields of a verbose summary line

\* the names of the fields of a verbose line, by the key each is reported under
Field ==
    [tests |-> <<"T", "e", "s", "t", "s">>,
     assertions |-> <<"A", "s", "s", "e", "r", "t", "i", "o", "n", "s">>,
     errors |-> <<"E", "r", "r", "o", "r", "s">>,
     failures |-> <<"F", "a", "i", "l", "u", "r", "e", "s">>,
     skipped |-> <<"S", "k", "i", "p", "p", "e", "d">>,
     incomplete |-> <<"I", "n", "c", "o", "m", "p", "l", "e", "t", "e">>,
     risky |-> <<"R", "i", "s", "k", "y">>,
     warnings |-> <<"W", "a", "r", "n", "i", "n", "g", "s">>]

\* the fields of TestResultSummary, and Warnings, which PHPUnit prints as well
SummaryNames ==
    {Field.tests, Field.assertions, Field.errors, Field.failures, Field.skipped,
     Field.incomplete, Field.risky}

\* the nouns of OK (<n> test(s), <m> assertion(s))
TerseTests == {<<"t", "e", "s", "t">>, <<"t", "e", "s", "t", "s">>}
TerseAssertions ==
    {<<"a", "s", "s", "e", "r", "t", "i", "o", "n">>,
     <<"a", "s", "s", "e", "r", "t", "i", "o", "n", "s">>}

SummaryCounts == {<<"1">>, <<"2", "0">>}

VerboseFields ==
    {fields \in UNION {[1 .. n -> [name : SummaryNames \cup {Field.warnings},
                                    count : SummaryCounts]] :
                           n \in 1 .. MaxFields} :
        \A i, j \in DOMAIN fields : fields[i].name = fields[j].name => i = j}

TerseFields ==
    {<<t>> : t \in [name : TerseTests, count : SummaryCounts]}
        \cup {<<t, a>> : t \in [name : TerseTests, count : SummaryCounts],
                         a \in [name : TerseAssertions, count : SummaryCounts]}

SummaryParts ==
    {[form |-> "verbose", fields |-> fields] : fields \in VerboseFields}
        \cup {[form |-> "terse", fields |-> fields] : fields \in TerseFields}

\* Name: count for a verbose line, count name for a terse one
WriteField(form, field) ==
    IF form = "verbose" THEN field.name \o <<":", " ">> \o field.count
    ELSE field.count \o <<" ">> \o field.name

\* Tests: 5, Assertions: 10, Failures: 2.   and   OK (5 tests, 10 assertions)
WriteSummary(p) ==
    LET written == Join([i \in DOMAIN p.fields |-> WriteField(p.form, p.fields[i])],
                        <<",", " ">>)
    IN  IF p.form = "verbose" THEN written \o <<".">>
        ELSE <<"O", "K", " ", "(">> \o written \o <<")">>

InitSummary ==
    /\ collect = EmptyObject
    /\ log = <<>>
    /\ parts \in SummaryParts
    /\ text = WriteSummary(parts)
    /\ parsed = NotRun
    /\ parserNamespace = Undefined
    /\ returned = <<>>
    /\ shared = EmptyObject

\* this.parsers.find((parser) => parser.is(text))?.parse(text), for a line
\* that none of the parsers before TestResultSummaryParser takes
ParseSummary ==
    /\ parsed = NotRun
    /\ parsed' = [is |-> TestResultSummaryParser_is(text),
                  result |-> IF TestResultSummaryParser_is(text)
                             THEN TestResultSummaryParser_parse(text)
                             ELSE Undefined]
    /\ UNCHANGED <<collect, log, text, parts, parserNamespace, returned, shared>>

NextSummary == ParseSummary

SpecSummary == InitSummary /\ [][NextSummary]_vars

(***************************************************************************)
(* C12: the keys of a parsed summary.                                      *)
(***************************************************************************)
\* the key a field is reported under, by its name as written
SummaryKeyOf(name) ==
    CASE name \in {Field.tests} \cup TerseTests -> "tests"
      [] name \in {Field.assertions} \cup TerseAssertions -> "assertions"
      [] name = Field.errors -> "errors"
      [] name = Field.failures -> "failures"
      [] name = Field.skipped -> "skipped"
      [] name = Field.incomplete -> "incomplete"
      [] name = Field.risky -> "risky"
      [] name = Field.warnings -> "warnings"

\* the number a count stands for, by its digits as written
SummaryCountOf(count) == IF count = <<"1">> THEN 1 ELSE 20

SummaryKeys ==
    {"tests", "assertions", "errors", "failures", "skipped", "incomplete", "risky"}

\* the fields of the line are reported under their normalized names with
\* their counts, and under no other key
SummaryAsWritten ==
    LET counts == DOMAIN parsed.result \ {"kind", "text"}
    IN  /\ counts = {SummaryKeyOf(parts.fields[i].name) : i \in DOMAIN parts.fields}
        /\ \A i \in DOMAIN parts.fields :
               parsed.result[SummaryKeyOf(parts.fields[i].name)]
                   = SummaryCountOf(parts.fields[i].count)

\* C12: for every line the recognizer accepts, the count keys of the record
\* are the normalized names of the fields written in the line, each with its
\* count, and none is outside tests, assertions, errors, failures, skipped,
\* incomplete, risky.
C12_SummaryKeys ==
    (parsed # NotRun /\ parsed.is) =>
        /\ SummaryAsWritten
        /\ DOMAIN parsed.result \ {"kind", "text"} \subseteq SummaryKeys

(***************************************************************************)
(* C13: the lines the summary recognizer accepts.                          *)
(***************************************************************************)
\* C13 as stated: the terse form and every verbose line made of Name: n
\* fields drawn from Tests, Assertions, Errors, Failures, Skipped, Incomplete,
\* Risky, each optional and in any order, is recognized.
C13_Recognition_Original ==
    (/\ parsed # NotRun
     /\ \/ parts.form = "terse"
        \/ \A i \in DOMAIN parts.fields : parts.fields[i].name \in SummaryNames)
        => parsed.is

\* C13 amended: a line is recognized exactly when it is of the terse form or
\* a verbose line that begins with the field Tests followed by the field
\* Assertions; the fields after these two are optional and in any order.
C13_Recognition ==
    parsed # NotRun =>
        (parsed.is <=>
            \/ parts.form = "terse"
            \/ /\ Len(parts.fields) >= 2
               /\ parts.fields[1].name = Field.tests
               /\ parts.fields[2].name = Field.assertions)

\* Tests: 1, Assertions: 20, Risky: 1. has been recognized
C13_Witness ==
    /\ parsed # NotRun
    /\ parts.form = "verbose"
    /\ Len(parts.fields) = 3
    /\ parts.fields[1] = [name |-> Field.tests, count |-> <<"1">>]
    /\ parts.fields[2] = [name |-> Field.assertions, count |-> <<"2", "0">>]
    /\ parts.fields[3] = [name |-> Field.risky, count |-> <<"1">>]
    /\ parsed.is

(***************************************************************************)
(* TestAttrParser.uniqueId and qualifiedClass.                             *)
(***************************************************************************)
\* !!name: neither undefined nor the empty string
Truthy(name) == name # Undefined /\ name.string # ""

\* names.filter((name) => !!name).join(separator)
RECURSIVE JoinTruthy(_, _)
JoinTruthy(names, separator) ==
    LET kept == SelectSeq(names, Truthy)
    IN  IF kept = <<>> THEN ""
        ELSE IF Len(kept) = 1 THEN kept[1].string
        ELSE kept[1].string \o separator \o JoinTruthy(Tail(kept), separator)

\* qualifiedClass putting the backslash before the class whatever the namespace
qualifiedClass_AlwaysBackslash(namespace, _class) ==
    StringOf((IF Truthy(namespace) THEN namespace.string ELSE "") \o "\\"
                 \o (IF Truthy(_class) THEN _class.string ELSE ""))

qualifiedClass(namespace, _class) ==
    StringOf(JoinTruthy(<<namespace, _class>>, "\\"))

uniqueId(namespace, _class, method) ==
    IF ~Truthy(_class) THEN namespace
    ELSE LET uniqueId1 == qualifiedClass(namespace, _class)
         IN  IF Truthy(method)
             THEN StringOf(uniqueId1.string \o "::" \o method.string)
             ELSE uniqueId1

(***************************************************************************)
(* SpecIdentity: uniqueId and qualifiedClass are applied to one choice of  *)
(* namespace, class and method, each a name, the empty string or           *)
(* undefined.                                                              *)
(***************************************************************************)

\* a parameter declared with ?: undefined, '' or a name
Optional(names) == {Undefined, StringOf("")} \cup {StringOf(n) : n \in names}

IdentityParts ==
    [namespace : Optional({"Ns", "Recca0120\\VSCode\\Tests"}),
     class : Optional({"FileTest", "NoNamespaceTest"}),
     method : Optional({"test_foo", "test_no_namespace"})]

InitIdentity ==
    /\ collect = EmptyObject
    /\ log = <<>>
    /\ text = <<>>
    /\ parts \in IdentityParts
    /\ parsed = NotRun
    /\ parserNamespace = Undefined
    /\ returned = <<>>
    /\ shared = EmptyObject

Identify ==
    /\ parsed = NotRun
    /\ parsed' = [id |-> uniqueId(parts.namespace, parts.class, parts.method),
                  qualifiedClass |-> qualifiedClass(parts.namespace, parts.class)]
    /\ UNCHANGED <<collect, log, text, parts, parserNamespace, returned, shared>>

NextIdentity == Identify

SpecIdentity == InitIdentity /\ [][NextIdentity]_vars

(***************************************************************************)
(* C14: the identity of a test.                                            *)
(***************************************************************************)
\* a part is present: it is given and not empty
Present(part) == part # Undefined /\ part.string # ""

\* the text of a part, empty when the part is not present
TextOf(part) == IF Present(part) THEN part.string ELSE ""

\* C14: uniqueId is <namespace>\<class>::<method> with a separator only where
\* both of its sides are present: <class>::<method> with an empty namespace,
\* <namespace>\<class> without a method, the namespace alone without a class;
\* qualifiedClass is the non-empty ones of namespace and class joined by \.
C14_TestIdentity ==
    parsed # NotRun =>
        LET namespace == parts.namespace
            class == parts.class
            method == parts.method
            qualified == TextOf(namespace)
                             \o (IF Present(namespace) /\ Present(class) THEN "\\" ELSE "")
                             \o TextOf(class)
        IN  /\ parsed.qualifiedClass = StringOf(qualified)
            /\ Present(class) =>
                   parsed.id = StringOf(qualified
                                            \o (IF Present(method) THEN "::" ELSE "")
                                            \o TextOf(method))
            /\ ~Present(class) => parsed.id = namespace

\* a class and a method with an empty namespace: NoNamespaceTest::test_no_namespace
C14_Witness ==
    /\ parsed # NotRun
    /\ parts.namespace = StringOf("")
    /\ parts.class = StringOf("NoNamespaceTest")
    /\ parts.method = StringOf("test_no_namespace")
    /\ parsed.id = StringOf("NoNamespaceTest::test_no_namespace")
    /\ parsed.qualifiedClass = StringOf("NoNamespaceTest")

(***************************************************************************)
(* The test-discovery Parser, on the tree engine.parseCode returns.  A     *)
(* node is a record with the fields the code reads: kind, name, children   *)
(* (program, namespace), isAbstract, body (class), visibility (method) and *)
(* loc.  The declarations carry no comments and no attributes, so their    *)
(* annotations are {}.  The field parent of a Test, a reference back to    *)
(* its suite, is left out of the records.  An array value a returned by a  *)
(* function that may return undefined is the record [array |-> a].         *)
(***************************************************************************)
ArrayOf(a) == [array |-> a]

\* typeof ast.name === 'string' ? ast.name : ast.name.name
getName(ast) == StringOf(Str(ast.name))

\* declaration ? getName(declaration) : undefined
parseName(declaration) ==
    IF declaration = Undefined THEN Undefined ELSE getName(declaration)

\* value ?? fallback
Nullish(value, fallback) == IF value = Undefined THEN fallback ELSE value

TestAttrParser_parseClass(declaration, namespace) ==
    [namespace |-> Nullish(parseName(namespace), StringOf("")),
     class |-> parseName(declaration)]

TestAttrParser_parseMethod(declaration, namespace, _class) ==
    [namespace |-> Nullish(parseName(namespace), StringOf("")),
     class |-> parseName(_class),
     method |-> parseName(declaration)]

parsePosition(declaration) ==
    [start |-> [line |-> declaration.loc.start.line,
                character |-> declaration.loc.start.column],
     end |-> [line |-> declaration.loc.end.line,
              character |-> declaration.loc.end.column]]

\* TestAttrParser.parse, for declaration.kind class or method
TestAttrParser_parse(declaration, namespace, _class) ==
    LET attrs == IF declaration.kind = "class"
                 THEN TestAttrParser_parseClass(declaration, namespace)
                 ELSE TestAttrParser_parseMethod(declaration, namespace, _class)
        method == IF In("method", attrs) THEN attrs.method ELSE Undefined
        id == uniqueId(attrs.namespace, attrs.class, method)
    IN  Spread(Spread([id |-> id,
                       qualifiedClass |-> qualifiedClass(attrs.namespace, attrs.class)],
                      attrs),
               Spread(parsePosition(declaration), [annotations |-> EmptyObject]))

\* getName(method).startsWith('test')
startsWithTest(name) ==
    Len(name) >= 4 /\ SubSeq(name, 1, 4) = <<"t", "e", "s", "t">>

\* Validator.isTest: validateClass, validateMethod; isAnnotationTest and
\* isAttributeTest are false for a method without comments and attributes
isTest(classOrMethod) ==
    CASE classOrMethod.kind = "class" -> ~classOrMethod.isAbstract
      [] classOrMethod.kind = "method" ->
            /\ ~classOrMethod.isAbstract
            /\ classOrMethod.visibility \in {"", "public"}
            /\ startsWithTest(classOrMethod.name)
      [] OTHER -> FALSE

\* new Test(file, attributes)
Test(file, attributes) == Spread([file |-> file, children |-> <<>>], attributes)

\* Parser.parseClass under this.namespace = namespace
Parser_parseClass(namespace, ast, file) ==
    IF ~isTest(ast) THEN ArrayOf(<<>>)
    ELSE LET methods == SelectSeq(ast.body, isTest)
             children == [i \in DOMAIN methods |->
                             Test(file, TestAttrParser_parse(methods[i], namespace, ast))]
             suite == Assign(Test(file, TestAttrParser_parse(ast, namespace, Undefined)),
                             "children", children)
         IN  IF Len(children) > 0 THEN ArrayOf(<<suite>>) ELSE Undefined

\* Parser.parseAst and Parser.parseChildren: this.namespace after the call
\* and the value returned
RECURSIVE Parser_parseAst(_, _, _)
RECURSIVE Parser_reduce(_, _, _, _)

\* ast.children.reduce((tests, children) =>
\*     tests.concat(this.parseAst(children, file) ?? []), [])
Parser_reduce(namespace, children, file, tests) ==
    IF children = <<>> THEN [namespace |-> namespace, tests |-> ArrayOf(tests)]
    ELSE LET one == Parser_parseAst(namespace, Head(children), file)
         IN  Parser_reduce(one.namespace, Tail(children), file,
                           tests \o Nullish(one.tests, ArrayOf(<<>>)).array)

Parser_parseChildren(namespace, ast, file) ==
    IF In("children", ast) THEN Parser_reduce(namespace, ast.children, file, <<>>)
    ELSE [namespace |-> namespace, tests |-> Undefined]

Parser_parseAst(namespace, ast, file) ==
    CASE ast.kind = "namespace" -> Parser_parseChildren(ast, ast, file)
      [] ast.kind = "class" ->
            [namespace |-> namespace, tests |-> Parser_parseClass(namespace, ast, file)]
      [] OTHER -> Parser_parseChildren(namespace, ast, file)

\* parse without this.namespace = undefined
Parser_parse_NoReset(namespace, source) ==
    IF source.broken THEN [namespace |-> namespace, tests |-> Undefined]
    ELSE Parser_parseAst(namespace, source.ast, source.file)

\* Parser.parse(text, file), this.namespace being namespace before the call;
\* source holds file and the tree of text, or says that parseCode raises
Parser_parse(namespace, source) ==
    IF source.broken THEN [namespace |-> Undefined, tests |-> Undefined]
    ELSE Parser_parseAst(Undefined, source.ast, source.file)

(***************************************************************************)
(* SpecDiscovery: at most MaxParses calls of parse(text, file) on the one  *)
(* Parser of the module, each on any of the files below: a class of at     *)
(* most MaxMethods methods, at the top level or in a namespace, or a text  *)
(* that parseCode rejects.                                                 *)
(***************************************************************************)
MaxParses == 2      \* calls of the discovery Parser.parse in one behaviour
MaxMethods == 1     \* methods of the class of a file

Loc(line) ==
    [start |-> [line |-> line, column |-> 4], end |-> [line |-> line + 3, column |-> 5]]

\* test_passed, public; test_hidden, private; setUp, public and no test
Methods ==
    {[kind |-> "method", name |-> <<"t", "e", "s", "t", "_", "p", "a", "s", "s", "e", "d">>,
      isAbstract |-> FALSE, visibility |-> "public", loc |-> Loc(7)],
     [kind |-> "method", name |-> <<"t", "e", "s", "t", "_", "h", "i", "d", "d", "e", "n">>,
      isAbstract |-> FALSE, visibility |-> "private", loc |-> Loc(12)],
     [kind |-> "method", name |-> <<"s", "e", "t", "U", "p">>,
      isAbstract |-> FALSE, visibility |-> "public", loc |-> Loc(17)]}

\* class AssertionsTest, abstract or not, with any of the methods
Classes ==
    [kind : {"class"},
     name : {<<"A", "s", "s", "e", "r", "t", "i", "o", "n", "s", "T", "e", "s", "t">>},
     isAbstract : BOOLEAN,
     body : UNION {[1 .. n -> Methods] : n \in 0 .. MaxMethods}, loc : {Loc(5)}]

\* namespace Recca0120 and namespace Tests around a class
Namespaces(class) ==
    {[kind |-> "namespace", name |-> n, children |-> <<class>>, loc |-> Loc(3)] :
        n \in {<<"R", "e", "c", "c", "a", "0", "1", "2", "0">>,
                <<"T", "e", "s", "t", "s">>}}

\* a file whose tree is its class at the top level or within a namespace,
\* and a file that parseCode rejects
Sources ==
    {[file |-> "tests/AssertionsTest.php", broken |-> FALSE,
      ast |-> [kind |-> "program", children |-> <<node>>]] :
        node \in UNION {{class} \cup Namespaces(class) : class \in Classes}}
        \cup {[file |-> "tests/Broken.php", broken |-> TRUE]}

InitDiscovery ==
    /\ collect = EmptyObject
    /\ log = <<>>
    /\ text = <<>>
    /\ parts = <<>>
    /\ parsed = NotRun
    /\ parserNamespace = Undefined
    /\ returned = <<>>
    /\ shared = EmptyObject

Discover ==
    /\ Len(log) < MaxParses
    /\ \E source \in Sources :
          LET r == Parser_parse(parserNamespace, source)
          IN  /\ parserNamespace' = r.namespace
              /\ log' = Append(log, [input |-> source, output |-> r.tests])
    /\ UNCHANGED <<collect, text, parts, parsed, returned, shared>>

NextDiscovery == Discover

SpecDiscovery == InitDiscovery /\ [][NextDiscovery]_vars

(***************************************************************************)
(* C15: no namespace of an earlier file in the tests of a later one.       *)
(***************************************************************************)
\* the tree declares no namespace
NoNamespace(ast) == \A i \in DOMAIN ast.children : ast.children[i].kind # "namespace"

\* the suites a call returned, none when it returned undefined
SuitesOf(output) == IF output = Undefined THEN <<>> ELSE output.array

\* C15: whatever was parsed before, the tests of a file that declares no
\* namespace have the empty namespace and the id <class> (a suite) or
\* <class>::<method> (a test of the suite).
C15_NoNamespaceLeak ==
    \A j \in LastStep :
        (~log[j].input.broken /\ NoNamespace(log[j].input.ast)) =>
            LET suites == SuitesOf(log[j].output)
            IN  \A s \in DOMAIN suites :
                    /\ suites[s].namespace = StringOf("")
                    /\ suites[s].id = suites[s].class
                    /\ \A t \in DOMAIN suites[s].children :
                           LET test == suites[s].children[t]
                           IN  /\ test.namespace = StringOf("")
                               /\ test.id = StringOf(test.class.string \o "::"
                                                         \o test.method.string)

\* a file without a namespace parsed just after a file with one, both with a test
C15_Witness ==
    /\ Len(log) = 2
    /\ ~log[1].input.broken /\ ~NoNamespace(log[1].input.ast)
    /\ SuitesOf(log[1].output) # <<>>
    /\ SuitesOf(log[1].output)[1].namespace = StringOf("Recca0120")
    /\ ~log[2].input.broken /\ NoNamespace(log[2].input.ast)
    /\ SuitesOf(log[2].output) # <<>>
    /\ SuitesOf(log[2].output)[1].children[1].id = StringOf("AssertionsTest::test_passed")

(***************************************************************************)
(* C16, C17, C18: what one call does to the store, as a property of every  *)
(* step of Spec: collect is the store before the call, collect' the store  *)
(* after it, and the last entry of log' the call.                          *)
(***************************************************************************)
\* the records store c holds for the key of message m
StoredFor(c, m) == {c[id] : id \in EntriesOf(c, m)}

\* store c without the entries of the key of message m
OthersThan(c, m) == [id \in DOMAIN c \ EntriesOf(c, m) |-> c[id]]

\* record merged is fields of over spread over the fields of under
MergedOver(merged, over, under) ==
    /\ DOMAIN merged = DOMAIN over \cup DOMAIN under
    /\ \A f \in DOMAIN over : merged[f] = over[f]
    /\ \A f \in DOMAIN under \ DOMAIN over : merged[f] = under[f]

\* C16: after a testStarted/testSuiteStarted message, whatever the store held,
\* the entry of the message's key equals the incoming record field for field,
\* the call returns a record equal to the incoming one, and the entries of
\* the other keys are as before.
C16_Started ==
    [][LET call == log'[Len(log')]
       IN  (isTestResult(call.input) /\ call.input.event \in StartedEvents) =>
               /\ StoredFor(collect', call.input) = {call.input}
               /\ Cardinality(EntriesOf(collect', call.input)) = 1
               /\ call.output = call.input
               /\ OthersThan(collect', call.input) = OthersThan(collect, call.input)]_vars

\* a Started message has replaced the fault buffered for its key while the
\* other key has an entry
C16_Witness ==
    /\ log # <<>>
    /\ IsEvent(Len(log), StartedEvents)
    /\ FaultsBetween(Boundary(Len(log)), Len(log)) # {}
    /\ StoredFor(collect, log[Len(log)].input) = {log[Len(log)].input}
    /\ DOMAIN OthersThan(collect, log[Len(log)].input) # {}

\* C17: a testFailed/testIgnored message makes the call emit no record; and
\* when the key has no stored record, or a stored testStarted or
\* testSuiteStarted record, the record stored afterwards is the fault record
\* merged over it: the fault's event, kind, message and details, and the
\* fields of the placeholder that the fault does not carry.
C17_FaultBuffering ==
    [][LET call == log'[Len(log')]
           before == StoredFor(collect, call.input)
       IN  (isTestResult(call.input) /\ call.input.event \in FaultEvents) =>
               /\ ~IsRecord(call.output)
               /\ (\A stored \in before : stored.event \in StartedEvents) =>
                      /\ Cardinality(EntriesOf(collect', call.input)) = 1
                      /\ \A merged \in StoredFor(collect', call.input) :
                             /\ merged.event = call.input.event
                             /\ merged.kind = call.input.event
                             /\ merged.message = call.input.message
                             /\ merged.details = call.input.details
                             /\ IF before = {}
                                THEN merged = call.input
                                ELSE \A stored \in before :
                                         MergedOver(merged, call.input, stored)]_vars

\* C18: a testFinished/testSuiteFinished message whose key has a stored
\* record returns a record whose event is the stored record's event when
\* that is testFailed or testIgnored and the message's event otherwise, and
\* whose kind equals its event.
C18_TerminalEvent ==
    [][LET call == log'[Len(log')]
       IN  (isTestResult(call.input) /\ call.input.event \in FinishedEvents) =>
               \A stored \in StoredFor(collect, call.input) :
                   /\ IsRecord(call.output)
                   /\ call.output.event = IF stored.event \in FaultEvents
                                          THEN stored.event
                                          ELSE call.input.event
                   /\ call.output.kind = call.output.event]_vars

\* a testFinished message has returned the testIgnored buffered for its key
C18_Witness ==
    /\ log # <<>>
    /\ IsEvent(Len(log), {"testFinished"})
    /\ IsRecord(log[Len(log)].output)
    /\ log[Len(log)].output.event = "testIgnored"
    /\ log[Len(log)].output.kind = "testIgnored"

(***************************************************************************)
(* Parser.parseDetails and Parser.parseFileAndLine.                        *)
(***************************************************************************)
\* value.trim()
trim(value) ==
    LET kept == {p \in DOMAIN value : value[p] \notin WhiteSpace}
    IN  IF kept = {} THEN <<>>
        ELSE SubSeq(value, First(kept), CHOOSE p \in kept : \A q \in kept : q <= p)

\* value.split(/\r\n|\n/g): a line feed ends a line, with the carriage
\* return before it when there is one
RECURSIVE SplitLines(_)
SplitLines(value) ==
    LET at == Occurrences(value, <<"\n">>)
    IN  IF at = {} THEN <<value>>
        ELSE LET feed == First(at)
                 end == IF feed > 1 /\ value[feed - 1] = "\r" THEN feed - 2 ELSE feed - 1
             IN  <<SubSeq(value, 1, end)>> \o SplitLines(SubSeq(value, feed + 1, Len(value)))

\* value.replace(from, to) for a string from: the first occurrence only
ReplaceFirst(value, from, to) ==
    LET at == Occurrences(value, from)
    IN  IF at = {} THEN value
        ELSE SubSeq(value, 1, First(at) - 1) \o to
                 \o SubSeq(value, First(at) + Len(from), Len(value))

\* the decimal digits of a number, as `${line}` writes them
RECURSIVE NumberToChars(_)
NumberToChars(n) ==
    IF n < 10 THEN <<DecimalDigits[n + 1]>>
    ELSE NumberToChars(n \div 10) \o <<DecimalDigits[(n % 10) + 1]>>

\* input.match(this.filePattern), filePattern = (s+)?(?<file>.+):(?<line>\d+)$
\* The digits are the run that ends the input and the colon stands before it.
\* The match begins at the first position from which no line terminator lies
\* before the colon; there (s+)? takes the letters s, as many as leave one
\* character to .+, and file is what lies between them and the colon.
filePatternMatch(input) ==
    LET digits == {n \in 1 .. Len(input) :
                      \A q \in (Len(input) - n + 1) .. Len(input) : input[q] \in Digits}
        count == Cardinality(digits)
        colon == Len(input) - count
        breaks == {q \in 1 .. (colon - 1) : input[q] \in LineTerminator}
        begin == IF breaks = {} THEN 1
                 ELSE 1 + CHOOSE q \in breaks : \A r \in breaks : r <= q
        run == RunOf(input, begin, {"s"})
        taken == IF begin + run <= colon - 1 THEN run ELSE colon - 1 - begin
    IN  IF count = 0 \/ colon < 1 \/ input[colon] # ":" \/ begin > colon - 1
        THEN Undefined
        ELSE [file |-> SubSeq(input, begin + taken, colon - 1),
              line |-> SubSeq(input, colon + 1, Len(input))]

\* file.replace(/^(-)+/, '')
StripDashes(file) == SubSeq(file, 1 + RunOf(file, 1, {"-"}), Len(file))

parseFileAndLine(value) ==
    LET lines == SplitLines(trim(value))
        matching == SelectSeq(lines, LAMBDA input : filePatternMatch(input) # Undefined)
    IN  [i \in DOMAIN matching |->
            LET groups == filePatternMatch(matching[i])
            IN  [file |-> trim(StripDashes(groups.file)), line |-> parseInt(groups.line)]]

\* details.forEach(({ file, line }) => message = message.replace(`${file}:${line}`, ''))
RECURSIVE RemoveDetails(_, _)
RemoveDetails(message, details) ==
    IF details = <<>> THEN message
    ELSE RemoveDetails(ReplaceFirst(message,
                                    Head(details).file \o <<":">>
                                        \o NumberToChars(Head(details).line),
                                    <<>>),
                       Tail(details))

parseDetails(argv) ==
    IF ~In("details", argv) THEN EmptyObject
    ELSE LET details == parseFileAndLine(argv.message)
         IN  [message |-> trim(RemoveDetails(argv.message, details)),
              details |-> details \o parseFileAndLine(argv.details)]

(***************************************************************************)
(* SpecDetails: parseDetails and parseFileAndLine are applied to one       *)
(* decoded record whose message and details fields are made of at most     *)
(* MaxLines lines each, joined by line feeds.  A line is one of the lines  *)
(* below: an entry <path>:<line>, bare, after a blank, or after a run of   *)
(* dashes, or a line of text that is no entry.                             *)
(***************************************************************************)
MaxLines == 2       \* lines of the message and of the details field

\* a line as written, the entry it stands for (Undefined: none), and what is
\* left of the line once <path>:<line> is taken out of it
EntryLine(before, path, digits, line) ==
    [written |-> before \o path \o <<":">> \o digits,
     entry |-> [file |-> path, line |-> line],
     rest |-> before]

TextLine(written) == [written |-> written, entry |-> Undefined, rest |-> written]

\* /app/F.php:12, src/FileTest.php:12,  /app/G.php:7, -- C:\F.php:7, and
\* the texts Failed. and at line 12
DetailLines ==
    {EntryLine(<<>>, <<"/", "a", "p", "p", "/", "F", ".", "p", "h", "p">>,
               <<"1", "2">>, 12),
     EntryLine(<<>>, SrcFileTestPhp, <<"1", "2">>, 12),
     EntryLine(<<" ">>, <<"/", "a", "p", "p", "/", "G", ".", "p", "h", "p">>, <<"7">>, 7),
     EntryLine(<<"-", "-", " ">>, <<"C", ":", "\\", "F", ".", "p", "h", "p">>,
               <<"7">>, 7),
     TextLine(<<"F", "a", "i", "l", "e", "d", ".">>),
     TextLine(<<"a", "t", " ", "l", "i", "n", "e", " ", "1", "2">>)}

DetailTexts == UNION {[1 .. n -> DetailLines] : n \in 0 .. MaxLines}

DetailParts == [message : DetailTexts, details : DetailTexts, hasDetails : BOOLEAN]

\* the lines as written, one after the other with a line feed between them
WriteLines(lines) == Join([i \in DOMAIN lines |-> lines[i].written], <<"\n">>)

\* argv, with or without the field details
WriteArgv(p) ==
    IF p.hasDetails
    THEN [message |-> WriteLines(p.message), details |-> WriteLines(p.details)]
    ELSE [message |-> WriteLines(p.message)]

InitDetails ==
    /\ collect = EmptyObject
    /\ log = <<>>
    /\ parts \in DetailParts
    /\ parts.hasDetails \/ parts.details = <<>>
    /\ text = WriteArgv(parts)
    /\ parsed = NotRun
    /\ parserNamespace = Undefined
    /\ returned = <<>>
    /\ shared = EmptyObject

ParseDetails ==
    /\ parsed = NotRun
    /\ parsed' = parseDetails(text)
    /\ UNCHANGED <<collect, log, text, parts, parserNamespace, returned, shared>>

ParseFileAndLine ==
    /\ parsed = NotRun
    /\ In("details", text)
    /\ parsed' = [entries |-> parseFileAndLine(text.details)]
    /\ UNCHANGED <<collect, log, text, parts, parserNamespace, returned, shared>>

NextDetails == ParseDetails \/ ParseFileAndLine

SpecDetails == InitDetails /\ [][NextDetails]_vars

(***************************************************************************)
(* C19, C20: the details of a fault.                                       *)
(***************************************************************************)
\* the entries the lines stand for, in line order
EntriesIn(lines) ==
    LET entries == SelectSeq(lines, LAMBDA l : l.entry # Undefined)
    IN  [i \in DOMAIN entries |-> entries[i].entry]

\* the lines with every <path>:<line> taken out, as one text
RestOf(lines) == Join([i \in DOMAIN lines |-> lines[i].rest], <<"\n">>)

\* C19: for a record with a details field, details is the entries found in
\* message, in line order, followed by the entries found in the details
\* field, in line order, and message is the original message with every
\* <path>:<line> that was matched taken out, trimmed.
C19_DetailOrder ==
    (parsed # NotRun /\ In("message", parsed)) =>
        /\ parsed.details = parseFileAndLine(text.message) \o parseFileAndLine(text.details)
        /\ Len(parsed.details) = Len(EntriesIn(parts.message)) + Len(EntriesIn(parts.details))
        /\ parsed.message = trim(RestOf(parts.message))

\* C20: every line that ends in :<digits> gives an entry whose line is the
\* number and whose file is the line before the last :<digits> without a
\* leading run of dashes and without the blanks around it, no other leading
\* character being dropped; the other lines give no entry.
C20_DetailEntry ==
    (parsed # NotRun /\ In("entries", parsed)) =>
        parsed.entries = EntriesIn(parts.details)

(***************************************************************************)
(* SpecRecords: at most MaxCalls calls of ProblemMatcher.parse, each on    *)
(* any record a line can decode into: lifecycle records whose name may end *)
(* in - and whose flow id may be negative, service messages that lack a    *)
(* name or a flow id, and service messages that carry event, name and      *)
(* flowId with an event that is none of the six lifecycle kinds.           *)
(***************************************************************************)
MaxCalls == 3       \* calls of ProblemMatcher.parse in one behaviour of SpecRecords

\* ##teamcity[<event> name='<name>' flowId='<flowId>' ...] for the names t and
\* t- and the flow ids 1 and -1; testCount, which has no name; a testStarted
\* without flowId; the banner of PHPUnit; a line that decodes into nothing
Records ==
    UNION {{Started("testStarted", n, f),
            Fault("testFailed", n, f, "A", <<Detail("A.php", 1)>>),
            Finished("testFinished", n, f)} : n \in {"t", "t-"}, f \in {1, -1}}
        \cup {[event |-> e, kind |-> e, name |-> "t", flowId |-> 1] :
                  e \in {"testStdOut", "toString", "constructor", "__proto__"}}
        \cup {[event |-> "testCount", kind |-> "testCount", count |-> 2, flowId |-> 1],
              [event |-> "testStarted", kind |-> "testStarted", name |-> "t"]}
        \cup OtherResults

ParseRecords ==
    /\ Len(log) < MaxCalls
    /\ \E result \in Records : Call(result)

NextRecords == ParseRecords

SpecRecords == Init /\ [][NextRecords]_vars

(***************************************************************************)
(* C21: which records reach the handlers.                                  *)
(***************************************************************************)
\* the record carries all three of event, name and flowId
HasAllThree(result) == {"event", "name", "flowId"} \subseteq DOMAIN result

\* C21: a call of parse on a record that lacks one of event, name and flowId
\* returns the record as it is and leaves the store as it was; a call on a
\* record that carries all three goes to the handler of its event when the
\* event is one of the six lifecycle kinds, and returns nothing and leaves
\* the store as it was when it is not.
C21_Classification ==
    [][LET result == log'[Len(log')].input
           output == log'[Len(log')].output
       IN  /\ ~HasAllThree(result) => output = result /\ collect' = collect
           /\ HasAllThree(result) /\ result.event \notin TestResultEvent
                  => output = Undefined /\ collect' = collect
           /\ HasAllThree(result) /\ result.event \in TestResultEvent
                  => /\ output = lookup(collect, result).result
                     /\ collect' = lookup(collect, result).collect]_vars

(***************************************************************************)
(* C22: one store entry for one pair (name, flowId).                       *)
(***************************************************************************)
\* the record is a lifecycle record: all three fields and one of the six events
IsLifecycle(result) == HasAllThree(result) /\ result.event \in TestResultEvent

\* C22: lifecycle records of different pairs (name, flowId) have different
\* store keys, and a call of parse on a lifecycle record leaves every stored
\* record of a different pair in the store and as it was.
C22_KeyInjectivity ==
    [][LET result == log'[Len(log')].input
       IN  IsLifecycle(result) =>
               /\ \A i \in DOMAIN log :
                      IsLifecycle(log[i].input) /\ ~SameKey(log[i].input, result)
                          => generateId(log[i].input) # generateId(result)
               /\ \A id \in DOMAIN collect :
                      ~SameKey(collect[id], result)
                          => id \in DOMAIN collect' /\ collect'[id] = collect[id]]_vars

(***************************************************************************)
(* C23: the keys of the store are the open keys.                           *)
(***************************************************************************)
\* key k received a Started/SuiteStarted or a Failed/Ignored message with no
\* Finished/SuiteFinished message after it
IsOpen(k) ==
    LET mine == StepsOf(k)
        opens == {i \in mine : log[i].input.event \in StartedEvents \cup FaultEvents}
        closes == {i \in mine : log[i].input.event \in FinishedEvents}
    IN  \E i \in opens : \A j \in closes : j < i

\* C23: after any sequence of lifecycle messages the store holds an entry for
\* every open key and no other entry.
C23_OpenKeys ==
    /\ \A k \in Keys : IsOpen(k) <=> generateId(k) \in DOMAIN collect
    /\ \A id \in DOMAIN collect : \E k \in Keys : id = generateId(k)

\* a fault of (t, 1) without a Started before it, then a Started and a
\* Finished of (t, 2): the store holds the entry of (t, 1) alone
C23_Witness ==
    /\ Len(log) = 3
    /\ IsEvent(1, FaultEvents) /\ log[1].input.flowId = 1
    /\ IsEvent(2, StartedEvents) /\ log[2].input.flowId = 2
    /\ IsEvent(3, FinishedEvents) /\ log[3].input.flowId = 2
    /\ DOMAIN collect = {generateId([name |-> Name, flowId |-> 1])}

(***************************************************************************)
(* C24: the first fault of a key decides the event.                        *)
(***************************************************************************)
\* record r has event, kind, type, actual and expected as fault message m has
\* them: event and kind are m's event, and each of the other three is absent
\* when m does not carry it
AsFirstFault(r, m) ==
    /\ IsRecord(r)
    /\ r.event = m.event
    /\ r.kind = m.event
    /\ \A f \in {"type", "actual", "expected"} :
           /\ In(f, r) <=> In(f, m)
           /\ In(f, m) => r[f] = m[f]

C25_StableRecords ==
    \A i \in Steps : IsEvent(i, StartedEvents) => returned[i] = log[i].output

====
